---------------------------- MODULE Spec2Model ----------------------------
(***************************************************************************)
(* Model of the vote view of polls/views.py (function vote, lines 39-55)   *)
(* running in several request workers against one database.                *)
(*                                                                         *)
(* A request worker executes  vote(request, question_id)  statement by     *)
(* statement; every database access (the SELECT of line 40, the SELECT of  *)
(* line 42, the UPDATE of line 51) is one atomic step, and steps of         *)
(* different workers interleave freely.                                    *)
(***************************************************************************)
EXTENDS Integers, Sequences, FiniteSets, TLC

(* ------------------------------ bounds --------------------------------- *)
\* number of request workers that can run vote() at the same time
NumWorkers == 2
\* total number of requests submitted in one behaviour of Spec
MaxSubmissions == 2
\* total number of requests submitted in one behaviour of SpecReliable
MaxBurst == 3

Workers == 1..NumWorkers

(* -------------------------- database content --------------------------- *)
\* primary keys of the Question rows
QuestionPks == {1, 2}
\* the question ids a URL carries in the model: 9 names no row
QuestionIds == QuestionPks \cup {9}

\* primary keys of the Choice rows, and the question each belongs to
ChoicePks == {1, 2, 3}
ChoiceOwner == [c \in ChoicePks |-> IF c = 3 THEN 2 ELSE 1]

(* ----------------------- request.POST['choice'] ------------------------ *)
\* A form value is a string, modelled as a sequence of characters.
Digits == {"0", "1", "2", "3", "4", "5", "6", "7", "8", "9"}

DigitVal(ch) ==
    CASE ch = "0" -> 0 [] ch = "1" -> 1 [] ch = "2" -> 2 [] ch = "3" -> 3
      [] ch = "4" -> 4 [] ch = "5" -> 5 [] ch = "6" -> 6 [] ch = "7" -> 7
      [] ch = "8" -> 8 [] ch = "9" -> 9

\* the form values a client sends in the model
FormValues ==
    { <<"1">>, <<"0", "2">>, <<"3">>, <<"7">>, <<"x">> }

\* request.POST: the set of keys present and the value of key 'choice'
PostBodies ==
    { [keys |-> {}, choice |-> <<>>] }
      \cup { [keys |-> {"choice"}, choice |-> s] : s \in FormValues }

NoPost == [keys |-> {}, choice |-> <<>>]

\* the pk lookup converts the string with int(): digits only, not empty
IsInt(s) == Len(s) > 0 /\ \A i \in 1..Len(s) : s[i] \in Digits

RECURSIVE ToInt(_)
ToInt(s) ==
    IF Len(s) = 0 THEN 0
    ELSE 10 * ToInt(SubSeq(s, 1, Len(s) - 1)) + DigitVal(s[Len(s)])


(* ------------------------------ state ---------------------------------- *)
VARIABLES
    Question,        \* table polls_question: the set of primary keys
    Choice,          \* table polls_choice: pk -> [question_id, votes]
    pc,              \* worker -> the statement of vote() it executes next
    question_id,     \* worker -> argument question_id of vote()
    POST,            \* worker -> request.POST
    question,        \* worker -> local variable question (its pk), 0 = unset
    selected_choice, \* worker -> local variable selected_choice (an instance)
    response,        \* worker -> what vote() returned or raised
    save_calls,      \* worker -> number of calls of save() in this request
    save_result,     \* worker -> how the last save() of this request ended
    submitted,       \* number of requests submitted so far
    accepted,        \* choice pk -> number of requests answered by the redirect
    written          \* choice pk -> number of save() calls that wrote the row

vars == << Question, Choice, pc, question_id, POST, question, selected_choice,
           response, save_calls, save_result, submitted, accepted, written >>

\* a model instance of Choice: the row as it was when it was loaded
NoInstance == [pk |-> 0, question_id |-> 0, votes |-> 0]

NoResponse == [kind |-> "none", view |-> "none", question |-> 0, error |-> "none"]

(* ------------------------- the responses of vote ----------------------- *)
\* get_object_or_404 raises Http404 (line 40)
Http404 ==
    [kind |-> "Http404", view |-> "none", question |-> 0, error |-> "none"]

\* render(request, '.../detail.html', {question, error_message}) (lines 45-48)
render(template, q, error_message) ==
    [kind |-> "render", view |-> template, question |-> q, error |-> error_message]

\* reverse('polls:results', args=(question.id,)) (line 55)
reverse(viewname, q) == [view |-> viewname, question |-> q]

\* variant: the results page rendered in the response to the POST
render_results(url) ==
    [kind |-> "render", view |-> "results", question |-> url.question,
     error |-> "none"]

\* HttpResponseRedirect(url) (line 55)
HttpResponseRedirect(url) ==
    [kind |-> "redirect", view |-> url.view, question |-> url.question,
     error |-> "none"]

\* an exception that no except clause of vote() catches leaves the view
Uncaught(exc) ==
    [kind |-> "exception", view |-> "none", question |-> 0, error |-> exc]

(* --------------------------- database queries -------------------------- *)
\* variant: the lookup never raises Http404
get_object_unchecked(tbl, pk) == TRUE

\* get_object_or_404(Question, pk=question_id): TRUE iff the row exists
get_object_or_404(tbl, pk) == pk \in tbl

\* variant: Choice.objects.get(pk=value), which does not filter by question
choice_set_get_unfiltered(tbl, q, post) ==
    IF "choice" \notin post.keys THEN [exc |-> "KeyError", obj |-> NoInstance]
    ELSE IF ~IsInt(post.choice) THEN [exc |-> "ValueError", obj |-> NoInstance]
    ELSE LET pk == ToInt(post.choice) IN
         IF pk \in DOMAIN tbl
         THEN [exc |-> "none",
               obj |-> [pk |-> pk, question_id |-> tbl[pk].question_id,
                        votes |-> tbl[pk].votes]]
         ELSE [exc |-> "DoesNotExist", obj |-> NoInstance]

\* question.choice_set.get(pk=value): the outcome of line 42.
\*   KeyError      request.POST has no key 'choice'
\*   ValueError    the value is not an integer literal
\*   DoesNotExist  no Choice row with that pk and question_id = question
\*   found         the instance loaded from the row
choice_set_get(tbl, q, post) ==
    IF "choice" \notin post.keys THEN [exc |-> "KeyError", obj |-> NoInstance]
    ELSE IF ~IsInt(post.choice) THEN [exc |-> "ValueError", obj |-> NoInstance]
    ELSE LET pk == ToInt(post.choice) IN
         IF pk \in DOMAIN tbl /\ tbl[pk].question_id = q
         THEN [exc |-> "none",
               obj |-> [pk |-> pk, question_id |-> tbl[pk].question_id,
                        votes |-> tbl[pk].votes]]
         ELSE [exc |-> "DoesNotExist", obj |-> NoInstance]

\* except (KeyError, Choice.DoesNotExist) (line 43)
Caught == {"KeyError", "DoesNotExist"}

\* variant: an UPDATE without the pk in its WHERE clause, which sets the
\* tally of every Choice of the instance's question
save_whole_choice_set(tbl, obj) ==
    [c \in DOMAIN tbl |->
        IF tbl[c].question_id = obj.question_id
        THEN [tbl[c] EXCEPT !.votes = obj.votes]
        ELSE tbl[c]]

\* variant: a save() that records a vote only for a Choice without votes
\* (a repeated submission for the same Choice is dropped as a duplicate)
save_deduplicated(tbl, obj) ==
    IF obj.pk \in DOMAIN tbl /\ tbl[obj.pk].votes >= 1
    THEN tbl
    ELSE [c \in DOMAIN tbl \cup {obj.pk} |->
            IF c = obj.pk
            THEN [question_id |-> obj.question_id, votes |-> obj.votes]
            ELSE tbl[c]]

\* variant: an UPDATE that adds the instance's tally to the stored tally
\* (votes = F('votes') + selected_choice.votes)
save_added(tbl, obj) ==
    IF obj.pk \in DOMAIN tbl
    THEN [tbl EXCEPT ![obj.pk] =
            [question_id |-> obj.question_id, votes |-> @.votes + obj.votes]]
    ELSE [c \in DOMAIN tbl \cup {obj.pk} |->
            IF c = obj.pk
            THEN [question_id |-> obj.question_id, votes |-> obj.votes]
            ELSE tbl[c]]

\* selected_choice.save(): UPDATE of every field of the row with the
\* instance's pk; when no row has that pk the instance is INSERTed.
save(tbl, obj) ==
    LET row == [question_id |-> obj.question_id, votes |-> obj.votes] IN
    IF obj.pk \in DOMAIN tbl
    THEN [tbl EXCEPT ![obj.pk] = row]
    ELSE [c \in DOMAIN tbl \cup {obj.pk} |-> IF c = obj.pk THEN row ELSE tbl[c]]

\* variant: a try around save() that swallows the error and goes on
after_save_swallowed(raised) == "redirect"

\* variant: a try around save() that calls save() again after an error
after_save_retried(raised) == IF raised THEN "save" ELSE "redirect"

\* where vote() continues after save(): the redirect of line 55 when it
\* returned, out of the view when it raised (no try encloses line 51)
after_save(raised) == IF raised THEN "done" ELSE "redirect"

(* ------------------------------ Init ----------------------------------- *)
Init ==
    /\ Question = QuestionPks
    /\ Choice = [c \in ChoicePks |-> [question_id |-> ChoiceOwner[c], votes |-> 0]]
    /\ pc = [w \in Workers |-> "idle"]
    /\ question_id = [w \in Workers |-> 0]
    /\ POST = [w \in Workers |-> NoPost]
    /\ question = [w \in Workers |-> 0]
    /\ selected_choice = [w \in Workers |-> NoInstance]
    /\ response = [w \in Workers |-> NoResponse]
    /\ save_calls = [w \in Workers |-> 0]
    /\ save_result = [w \in Workers |-> "none"]
    /\ submitted = 0
    /\ accepted = [c \in ChoicePks |-> 0]
    /\ written = [c \in ChoicePks |-> 0]

(* ----------------------------- actions --------------------------------- *)
\* a request arrives and a free worker calls vote(request, question_id);
\* at most limit requests arrive
Arrive(w, limit) ==
    /\ pc[w] \in {"idle", "done"}
    /\ submitted < limit
    /\ \E q \in QuestionIds, p \in PostBodies :
          /\ question_id' = [question_id EXCEPT ![w] = q]
          /\ POST' = [POST EXCEPT ![w] = p]
    /\ pc' = [pc EXCEPT ![w] = "get_question"]
    /\ question' = [question EXCEPT ![w] = 0]
    /\ selected_choice' = [selected_choice EXCEPT ![w] = NoInstance]
    /\ response' = [response EXCEPT ![w] = NoResponse]
    /\ save_calls' = [save_calls EXCEPT ![w] = 0]
    /\ save_result' = [save_result EXCEPT ![w] = "none"]
    /\ submitted' = submitted + 1
    /\ UNCHANGED << Question, Choice, accepted, written >>

Submit(w) == Arrive(w, MaxSubmissions)

SubmitBurst(w) == Arrive(w, MaxBurst)

\* line 40: question = get_object_or_404(Question, pk=question_id)
GetQuestion(w) ==
    /\ pc[w] = "get_question"
    /\ IF get_object_or_404(Question, question_id[w])
       THEN /\ question' = [question EXCEPT ![w] = question_id[w]]
            /\ pc' = [pc EXCEPT ![w] = "get_choice"]
            /\ UNCHANGED response
       ELSE /\ response' = [response EXCEPT ![w] = Http404]
            /\ pc' = [pc EXCEPT ![w] = "done"]
            /\ UNCHANGED question
    /\ UNCHANGED << Question, Choice, question_id, POST, selected_choice,
                    save_calls, save_result, submitted, accepted, written >>

\* lines 41-48: the try block and its except clause
GetChoice(w) ==
    /\ pc[w] = "get_choice"
    /\ LET r == choice_set_get(Choice, question[w], POST[w]) IN
       IF r.exc = "none"
       THEN /\ selected_choice' = [selected_choice EXCEPT ![w] = r.obj]
            /\ pc' = [pc EXCEPT ![w] = "increment"]
            /\ UNCHANGED << response, question >>
       ELSE /\ response' = [response EXCEPT ![w] =
                 IF r.exc \in Caught
                 THEN render("detail", question[w], "You didn't select a choice.")
                 ELSE Uncaught(r.exc)]
            /\ pc' = [pc EXCEPT ![w] = "done"]
            /\ question' = [question EXCEPT ![w] = 0]
            /\ UNCHANGED selected_choice
    /\ UNCHANGED << Question, Choice, question_id, POST,
                    save_calls, save_result, submitted, accepted, written >>

\* variant: line 50 as  selected_choice.votes += 2
Increment_by_two(w) ==
    /\ pc[w] = "increment"
    /\ selected_choice' = [selected_choice EXCEPT ![w].votes = @ + 2]
    /\ pc' = [pc EXCEPT ![w] = "save"]
    /\ UNCHANGED << Question, Choice, question_id, POST, question, response,
                    save_calls, save_result, submitted, accepted, written >>

\* line 50: selected_choice.votes += 1, on the instance in memory
Increment(w) ==
    /\ pc[w] = "increment"
    /\ selected_choice' = [selected_choice EXCEPT ![w].votes = @ + 1]
    /\ pc' = [pc EXCEPT ![w] = "save"]
    /\ UNCHANGED << Question, Choice, question_id, POST, question, response,
                    save_calls, save_result, submitted, accepted, written >>

\* line 51: selected_choice.save() returns after writing the row
SaveOk(w) ==
    /\ pc[w] = "save"
    /\ Choice' = save(Choice, selected_choice[w])
    /\ written' = [written EXCEPT ![selected_choice[w].pk] = @ + 1]
    /\ save_calls' = [save_calls EXCEPT ![w] = @ + 1]
    /\ save_result' = [save_result EXCEPT ![w] = "ok"]
    /\ pc' = [pc EXCEPT ![w] = after_save(FALSE)]
    /\ UNCHANGED << Question, question_id, POST, question, selected_choice,
                    response, submitted, accepted >>

\* line 51: selected_choice.save() raises a database error; the row was
\* written before the error was reported (applied) or was not written.
\* The exception leaves vote(), whose locals are dropped.
SaveFail(w) ==
    /\ pc[w] = "save"
    /\ \E applied \in BOOLEAN :
          IF applied
          THEN /\ Choice' = save(Choice, selected_choice[w])
               /\ written' = [written EXCEPT ![selected_choice[w].pk] = @ + 1]
          ELSE UNCHANGED << Choice, written >>
    /\ save_calls' = [save_calls EXCEPT ![w] = @ + 1]
    /\ save_result' = [save_result EXCEPT ![w] = "error"]
    /\ pc' = [pc EXCEPT ![w] = after_save(TRUE)]
    /\ IF after_save(TRUE) = "done"
       THEN /\ response' = [response EXCEPT ![w] = Uncaught("DatabaseError")]
            /\ question' = [question EXCEPT ![w] = 0]
            /\ selected_choice' = [selected_choice EXCEPT ![w] = NoInstance]
       ELSE UNCHANGED << response, question, selected_choice >>
    /\ UNCHANGED << Question, question_id, POST, submitted, accepted >>

\* line 55: return HttpResponseRedirect(reverse('polls:results', ...))
Redirect(w) ==
    /\ pc[w] = "redirect"
    /\ response' = [response EXCEPT ![w] =
          HttpResponseRedirect(reverse("polls:results", question[w]))]
    /\ accepted' = [accepted EXCEPT ![selected_choice[w].pk] = @ + 1]
    /\ pc' = [pc EXCEPT ![w] = "done"]
    /\ question' = [question EXCEPT ![w] = 0]
    /\ selected_choice' = [selected_choice EXCEPT ![w] = NoInstance]
    /\ UNCHANGED << Question, Choice, question_id, POST,
                    save_calls, save_result, submitted, written >>

Next ==
    \E w \in Workers :
        \/ Submit(w)
        \/ GetQuestion(w)
        \/ GetChoice(w)
        \/ Increment(w)
        \/ SaveOk(w)
        \/ SaveFail(w)
        \/ Redirect(w)

Spec == Init /\ [][Next]_vars

\* the same workers against a database whose writes never fail
NextReliable ==
    \E w \in Workers :
        \/ SubmitBurst(w)
        \/ GetQuestion(w)
        \/ GetChoice(w)
        \/ Increment(w)
        \/ SaveOk(w)
        \/ Redirect(w)

SpecReliable == Init /\ [][NextReliable]_vars


(* ------------------------------ fairness ------------------------------- *)
\* the statements of vote() that worker w can execute
WorkerStep(w) ==
    \/ GetQuestion(w)
    \/ GetChoice(w)
    \/ Increment(w)
    \/ SaveOk(w)
    \/ SaveFail(w)
    \/ Redirect(w)

\* every worker runs on and every database call returns: a worker that can
\* execute its next statement eventually does
SpecFair == Spec /\ \A w \in Workers : WF_vars(WorkerStep(w))

(* ------------------------ one request at a time ------------------------ *)
\* a request arrives while no other request is being handled
SubmitAlone(w) ==
    /\ \A v \in Workers \ {w} : pc[v] \in {"idle", "done"}
    /\ Arrive(w, MaxBurst)

NextSequential ==
    \E w \in Workers :
        \/ SubmitAlone(w)
        \/ GetQuestion(w)
        \/ GetChoice(w)
        \/ Increment(w)
        \/ SaveOk(w)
        \/ SaveFail(w)
        \/ Redirect(w)

SpecSequential == Init /\ [][NextSequential]_vars

(* --------------------------- cancellation ------------------------------ *)
\* variant: vote() inside a transaction that is rolled back when the view
\* does not return (ATOMIC_REQUESTS), which takes back an acknowledged write
abandon_rolled_back(tbl, obj, acked) ==
    IF acked /\ obj.pk \in DOMAIN tbl
    THEN [tbl EXCEPT ![obj.pk].votes = obj.votes - 1]
    ELSE tbl

\* what stopping vote() does to the table: lines 39-55 open no transaction,
\* so every statement is committed on its own and nothing is taken back
abandon(tbl, obj, acked) == tbl

\* the request is cancelled between two statements of vote(): the worker
\* stops where it is and returns no response
Cancel(w) ==
    /\ pc[w] \in {"get_question", "get_choice", "increment", "save", "redirect"}
    /\ Choice' = abandon(Choice, selected_choice[w], save_result[w] = "ok")
    /\ pc' = [pc EXCEPT ![w] = "cancelled"]
    /\ question' = [question EXCEPT ![w] = 0]
    /\ selected_choice' = [selected_choice EXCEPT ![w] = NoInstance]
    /\ UNCHANGED << Question, question_id, POST, response, save_calls,
                    save_result, submitted, accepted, written >>

\* the request is cancelled inside save() (line 51) after the database has
\* executed the UPDATE and before save() has reported it to vote()
CancelDuringSave(w) ==
    /\ pc[w] = "save"
    /\ Choice' = save(Choice, selected_choice[w])
    /\ written' = [written EXCEPT ![selected_choice[w].pk] = @ + 1]
    /\ save_calls' = [save_calls EXCEPT ![w] = @ + 1]
    /\ pc' = [pc EXCEPT ![w] = "cancelled"]
    /\ question' = [question EXCEPT ![w] = 0]
    /\ selected_choice' = [selected_choice EXCEPT ![w] = NoInstance]
    /\ UNCHANGED << Question, question_id, POST, response, save_result,
                    submitted, accepted >>

NextCancel ==
    \E w \in Workers :
        \/ Submit(w)
        \/ GetQuestion(w)
        \/ GetChoice(w)
        \/ Increment(w)
        \/ SaveOk(w)
        \/ SaveFail(w)
        \/ Redirect(w)
        \/ Cancel(w)
        \/ CancelDuringSave(w)

SpecCancel == Init /\ [][NextCancel]_vars

(* --------------------------- administration --------------------------- *)
\* the administration interface deletes the Choice row c
AdminDeleteChoice(c) ==
    /\ c \in DOMAIN Choice
    /\ Choice' = [d \in DOMAIN Choice \ {c} |-> Choice[d]]
    /\ UNCHANGED << Question, pc, question_id, POST, question, selected_choice,
                    response, save_calls, save_result, submitted, accepted,
                    written >>

NextAdmin ==
    \/ \E w \in Workers :
          \/ Submit(w)
          \/ GetQuestion(w)
          \/ GetChoice(w)
          \/ Increment(w)
          \/ SaveOk(w)
          \/ SaveFail(w)
          \/ Redirect(w)
    \/ \E c \in ChoicePks : AdminDeleteChoice(c)

SpecAdmin == Init /\ [][NextAdmin]_vars

(* ---------------------- vocabulary of the claims ----------------------- *)
\* all workers are between requests
Quiescent == \A w \in Workers : pc[w] \in {"idle", "done"}

\* worker w holds a request (running or answered)
HasRequest(w) == pc[w] # "idle"

\* the form of request.POST
FieldMissing(p) == "choice" \notin p.keys
FieldUnparsable(p) == "choice" \in p.keys /\ ~IsInt(p.choice)
FieldNames(p, c) == "choice" \in p.keys /\ IsInt(p.choice) /\ ToInt(p.choice) = c

\* the field names a pk that no Choice row has
NamesNoChoice(p) ==
    "choice" \in p.keys /\ IsInt(p.choice) /\ ToInt(p.choice) \notin DOMAIN Choice

\* the field names a Choice row of another question than q
NamesForeignChoice(p, q) ==
    \E c \in DOMAIN Choice : FieldNames(p, c) /\ Choice[c].question_id # q

\* the voting form of question q with the error message
FormWithError(q) ==
    [kind |-> "render", view |-> "detail", question |-> q,
     error |-> "You didn't select a choice."]

\* this step is a call of save() by worker w
SaveStep(w) == pc[w] = "save" /\ save_calls'[w] = save_calls[w] + 1

\* this step is a step of worker w
StepOf(w) == pc'[w] # pc[w] \/ save_calls'[w] # save_calls[w]

(* ------------------------------- C1 ------------------------------------ *)
\* C1: when all requests are answered and every write of Choice c came from
\* a request that ended in the redirect (Success), the tally of c is its
\* initial value 0 plus the number of those requests: no update is lost.
C1_NoLostUpdate ==
    \A c \in DOMAIN Choice :
        (Quiescent /\ written[c] = accepted[c]) => Choice[c].votes = accepted[c]

(* ------------------------------- C2 ------------------------------------ *)
\* C2: no step lowers the tally of a Choice.
C2_TallyNeverDecreases ==
    [][\A c \in DOMAIN Choice \cap DOMAIN Choice' :
          Choice'[c].votes >= Choice[c].votes]_vars

(* ------------------------------- C3 ------------------------------------ *)
\* C3: a request for an existing Question whose choice field is missing,
\* names no Choice row, or names a Choice of another Question never reaches
\* the increment or the save, changes no row in any of its steps, and is
\* answered by the voting form of that Question with the error message.
C3_Invalid(w) ==
    /\ HasRequest(w)
    /\ question_id[w] \in Question
    /\ \/ FieldMissing(POST[w])
       \/ NamesNoChoice(POST[w])
       \/ NamesForeignChoice(POST[w], question_id[w])

C3_InvalidChoiceNoMutation ==
    /\ [](\A w \in Workers : C3_Invalid(w) =>
            /\ pc[w] \in {"get_question", "get_choice", "done"}
            /\ save_calls[w] = 0
            /\ pc[w] = "done" => response[w] = FormWithError(question_id[w]))
    /\ [][\A w \in Workers : (C3_Invalid(w) /\ StepOf(w)) => Choice' = Choice]_vars

C3_Witness ==
    \E w \in Workers :
        /\ pc[w] = "done"
        /\ question_id[w] = 1
        /\ NamesForeignChoice(POST[w], 1)
        /\ response[w].kind = "render"
        /\ \E c \in DOMAIN Choice : Choice[c].votes > 0

(* ------------------------------- C4 ------------------------------------ *)
\* C4: a request for an existing Question whose choice field is present but
\* is no integer literal is answered by the voting form with the error
\* message (NoChoiceSelected), as for an absent field.
C4_UnparsableIsNoChoiceSelected ==
    \A w \in Workers :
        (/\ pc[w] = "done"
         /\ question_id[w] \in Question
         /\ FieldUnparsable(POST[w]))
        => response[w] = FormWithError(question_id[w])

(* ------------------------------- C5 ------------------------------------ *)
\* C5: a request whose question id names no Question row is answered by
\* Http404 whatever its choice field holds, never reaches the choice
\* lookup or the save, and changes no row in any of its steps.
C5_Missing(w) == HasRequest(w) /\ question_id[w] \notin Question

C5_MissingQuestionNotFound ==
    /\ [](\A w \in Workers : C5_Missing(w) =>
            /\ pc[w] \in {"get_question", "done"}
            /\ save_calls[w] = 0
            /\ pc[w] = "done" => response[w].kind = "Http404")
    /\ [][\A w \in Workers : (C5_Missing(w) /\ StepOf(w)) => Choice' = Choice]_vars

C5_Witness ==
    \E w \in Workers :
        /\ pc[w] = "done"
        /\ question_id[w] \notin Question
        /\ FieldNames(POST[w], 1)
        /\ response[w].kind = "Http404"
        /\ \E c \in DOMAIN Choice : Choice[c].votes > 0

(* ------------------------------- C6 ------------------------------------ *)
\* C6: a request whose save() returned is answered by a redirect to the
\* results view of the Question of the request, never by a rendered page.
C6_SuccessIsRedirectToResults ==
    \A w \in Workers :
        save_result[w] = "ok" =>
            /\ pc[w] \in {"redirect", "done"}
            /\ pc[w] = "done" =>
                  /\ response[w].kind = "redirect"
                  /\ response[w].view = "polls:results"
                  /\ response[w].question = question_id[w]

C6_Witness ==
    \E w \in Workers :
        /\ pc[w] = "done"
        /\ save_result[w] = "ok"
        /\ response[w].kind = "redirect"
        /\ question_id[w] = 2

(* ------------------------------- C7 ------------------------------------ *)
\* C7: a row of Choice changes only in a save() of a worker whose selected
\* choice is that row, and that step changes no other row; a Choice that no
\* save() was made for keeps its initial tally 0.
C7_VoteTouchesOnlyItsChoice ==
    /\ [][\A c \in DOMAIN Choice :
            Choice'[c] # Choice[c] =>
               /\ \E w \in Workers : SaveStep(w) /\ selected_choice[w].pk = c
               /\ \A d \in DOMAIN Choice \ {c} : Choice'[d] = Choice[d]]_vars
    /\ [](\A c \in DOMAIN Choice : written[c] = 0 => Choice[c].votes = 0)

C7_Witness ==
    /\ Choice[1].votes = 1
    /\ Choice[2].votes = 0
    /\ written[2] = 0
    /\ \E w \in Workers : pc[w] = "save" /\ selected_choice[w].pk = 2

(* ------------------------------- C8 ------------------------------------ *)
\* C8: every change of a tally is an increase by exactly one, made by the
\* save() of one worker, and that step changes the tally of no other Choice.
C8_EveryChangeIsOneVote ==
    [][\A c \in DOMAIN Choice \cap DOMAIN Choice' :
          Choice'[c].votes # Choice[c].votes =>
             /\ Choice'[c].votes = Choice[c].votes + 1
             /\ \E w \in Workers : SaveStep(w) /\ selected_choice[w].pk = c
             /\ \A d \in (DOMAIN Choice \cap DOMAIN Choice') \ {c} :
                   Choice'[d].votes = Choice[d].votes]_vars

(* ------------------------------- C9 ------------------------------------ *)
\* C9: a request whose save() raised is out of the view with the database
\* error as its outcome; it never reaches the redirect.
C9_PersistenceFailureNeverSuccess ==
    \A w \in Workers :
        save_result[w] = "error" =>
            /\ pc[w] = "done"
            /\ response[w].kind = "exception"
            /\ response[w].error = "DatabaseError"

C9_Witness ==
    \E w \in Workers :
        /\ save_result[w] = "error"
        /\ response[w].kind = "exception"
        /\ written[1] = 1
        /\ accepted[1] = 0

(* ------------------------------- C10 ----------------------------------- *)
\* C10: a request calls save() at most once, also when the call raised.
C10_SaveAtMostOnce ==
    \A w \in Workers :
        /\ save_calls[w] <= 1
        /\ save_result[w] # "none" => save_calls[w] = 1

C10_Witness ==
    \E w \in Workers :
        /\ pc[w] = "done"
        /\ save_calls[w] = 1
        /\ save_result[w] = "error"
        /\ \A c \in DOMAIN Choice : written[c] = 0

(* ------------------------------- C11 ----------------------------------- *)
\* this step cancels the request of worker w
CancelStep(w) == pc[w] # "cancelled" /\ pc'[w] = "cancelled"

\* C11 as stated: a request cancelled before save() has acknowledged the
\* write has made no write (the step that cancels it changes no row and it
\* has not entered save()); a request cancelled after the acknowledgement
\* keeps its write and has no response.
C11_CancelBeforeAckNoEffect ==
    /\ [][\A w \in Workers : CancelStep(w) => Choice' = Choice]_vars
    /\ [](\A w \in Workers :
            pc[w] = "cancelled" =>
               /\ response[w].kind = "none"
               /\ save_result[w] # "ok" => save_calls[w] = 0)

\* C11 amended: a request cancelled before it has called save() has made
\* no write; a request cancelled inside save() has either made no write or
\* the whole write of its one row (the tally it loaded plus one); a request
\* cancelled after save() returned keeps its write; a cancelled request has
\* no response; rows change only in the save() of a worker.
C11_CancelEffect ==
    /\ [][\A w \in Workers :
            CancelStep(w) =>
               \/ Choice' = Choice
               \/ /\ pc[w] = "save"
                  /\ save_calls'[w] = save_calls[w] + 1
                  /\ \A c \in DOMAIN Choice :
                        IF c = selected_choice[w].pk
                        THEN Choice'[c].votes = selected_choice[w].votes
                        ELSE Choice'[c] = Choice[c]]_vars
    /\ [][\A c \in DOMAIN Choice :
            Choice'[c] # Choice[c] =>
               \E w \in Workers : pc[w] = "save" /\ selected_choice[w].pk = c]_vars
    /\ [](\A w \in Workers :
            pc[w] = "cancelled" =>
               /\ response[w].kind = "none"
               /\ save_result[w] \in {"none", "ok"}
               /\ save_result[w] = "ok" => save_calls[w] = 1)

C11_Witness ==
    \E w \in Workers :
        /\ pc[w] = "cancelled"
        /\ save_result[w] = "ok"
        /\ question_id[w] = 1
        /\ FieldNames(POST[w], 1)
        /\ Choice[1].votes = 1
        /\ accepted[1] = 0
        /\ \E v \in Workers :
              pc[v] = "cancelled" /\ save_calls[v] = 0 /\ FieldNames(POST[v], 2)
                 /\ question_id[v] = 1 /\ Choice[2].votes = 0

(* ------------------------------- C12 ----------------------------------- *)
\* C12: no step of a worker creates or deletes a Question or Choice row or
\* moves a Choice to another Question; the set of rows changes only in a
\* step of the administration interface.
C12_HandlerNeverCreatesOrDeletes ==
    [][(\E w \in Workers : StepOf(w)) =>
          /\ Question' = Question
          /\ DOMAIN Choice' = DOMAIN Choice
          /\ \A c \in DOMAIN Choice :
                Choice'[c].question_id = Choice[c].question_id]_vars

(* ------------------------------- C13 ----------------------------------- *)
\* the request of worker w names an existing Question and a Choice of it
NamesOwnChoice(w) ==
    /\ question_id[w] \in Question
    /\ \E c \in DOMAIN Choice :
          FieldNames(POST[w], c) /\ Choice[c].question_id = question_id[w]

\* C13 as stated, requests handled one at a time: every request that names
\* an existing Question and a Choice of it is answered by the redirect, its
\* save() raises the tally of that Choice by exactly one and changes no
\* other row, and every tally is the number of redirects for its Choice
\* whenever no request is being handled.
C13_SequentialVoteCounts ==
    /\ [](\A w \in Workers :
            (pc[w] = "done" /\ NamesOwnChoice(w)) => response[w].kind = "redirect")
    /\ [][\A w \in Workers :
            SaveStep(w) =>
               \A c \in DOMAIN Choice :
                  IF c = selected_choice[w].pk
                  THEN Choice'[c].votes = Choice[c].votes + 1
                  ELSE Choice'[c] = Choice[c]]_vars
    /\ [](Quiescent => \A c \in DOMAIN Choice : Choice[c].votes = accepted[c])

\* C13 amended, requests handled one at a time: every such request whose
\* save() did not raise is answered by the redirect to the results of its
\* Question; a save() that returns raises the tally of its Choice by
\* exactly one and changes no other row; every tally is the number of
\* save() calls that wrote its row, which is at least the number of
\* redirects for its Choice.
C13_SequentialVoteCountsUnlessSaveRaises ==
    /\ [](\A w \in Workers :
            (pc[w] = "done" /\ NamesOwnChoice(w) /\ save_result[w] # "error") =>
               /\ response[w].kind = "redirect"
               /\ response[w].question = question_id[w]
               /\ save_result[w] = "ok")
    /\ [][\A w \in Workers :
            (SaveStep(w) /\ save_result'[w] = "ok") =>
               \A c \in DOMAIN Choice :
                  IF c = selected_choice[w].pk
                  THEN Choice'[c].votes = Choice[c].votes + 1
                  ELSE Choice'[c] = Choice[c]]_vars
    /\ [](\A c \in DOMAIN Choice :
            Choice[c].votes = written[c] /\ accepted[c] <= written[c])

C13_Witness ==
    /\ Quiescent
    /\ submitted = 3
    /\ Choice[1].votes = 2
    /\ accepted[1] = 2
    /\ Choice[3].votes = 1
    /\ accepted[3] = 1
    /\ Choice[2].votes = 0

(* ------------------------------- C15 ----------------------------------- *)
\* C15, requests handled one at a time: when two requests with the same
\* question id and the same form data were both answered by the redirect,
\* the row of their Choice was written at least twice and its tally counts
\* every write; when they are the only requests so far the tally is 2.
C15_NoDeduplication ==
    \A w1, w2 \in Workers :
        (/\ w1 # w2
         /\ pc[w1] = "done" /\ pc[w2] = "done"
         /\ response[w1].kind = "redirect" /\ response[w2].kind = "redirect"
         /\ question_id[w1] = question_id[w2]
         /\ POST[w1] = POST[w2])
        => \E c \in DOMAIN Choice :
              /\ FieldNames(POST[w1], c)
              /\ Choice[c].votes >= 2
              /\ Choice[c].votes = written[c]
              /\ submitted = 2 => Choice[c].votes = 2

C15_Witness ==
    /\ pc[1] = "done" /\ pc[2] = "done"
    /\ response[1].kind = "redirect" /\ response[2].kind = "redirect"
    /\ question_id[1] = 1 /\ question_id[2] = 1
    /\ POST[1] = POST[2]
    /\ FieldNames(POST[1], 2)
    /\ submitted = 2
    /\ Choice[2].votes = 2

(* ------------------------------- C14 ----------------------------------- *)
\* C14: the choice lookup and everything after it run only with the
\* Question of the request resolved; a request whose question id names no
\* row is never answered by the voting form, an exception or a redirect, so
\* a request answered by the voting form names an existing Question.
C14_QuestionResolvedFirst ==
    \A w \in Workers :
        /\ pc[w] \in {"get_choice", "increment", "save", "redirect"} =>
              question[w] = question_id[w] /\ question[w] \in Question
        /\ pc[w] = "done" =>
              /\ response[w].kind \in {"render", "exception", "redirect"} =>
                    question_id[w] \in Question
              /\ response[w].kind = "render" =>
                    response[w].question = question_id[w]
              /\ response[w].kind = "Http404" => question_id[w] \notin Question

C14_Witness ==
    \E w, v \in Workers :
        /\ pc[w] = "done"
        /\ question_id[w] \notin Question
        /\ FieldUnparsable(POST[w])
        /\ response[w].kind = "Http404"
        /\ pc[v] = "done"
        /\ FieldMissing(POST[v])
        /\ response[v].kind = "render"

(* ------------------------------- C16 ----------------------------------- *)
\* C16: the tally of a Choice never exceeds its initial value 0 plus the
\* number of save() calls that wrote its row.
C16_TallyAtMostWrites ==
    \A c \in DOMAIN Choice : Choice[c].votes <= written[c]

C16_Witness ==
    \E c \in DOMAIN Choice :
        /\ written[c] = 2
        /\ accepted[c] = 2
        /\ Choice[c].votes = 1

(* ------------------------------- C17 ----------------------------------- *)
\* worker w is executing vote()
Running(w) ==
    pc[w] \in {"get_question", "get_choice", "increment", "save", "redirect"}

\* C17: with every worker running on and every database call returning,
\* no call of vote() runs forever, and it ends only by returning, with one
\* of the outcomes Http404, voting form, redirect, exception; a running worker can always execute its next
\* statement whatever the other workers do; and a worker is at the
\* increment, the save or the redirect only with its Question resolved and
\* a Choice of that Question selected, and rows change only in a save().
C17_EveryInvocationTerminates ==
    /\ \A w \in Workers : []<>(~Running(w))
    /\ [][\A w \in Workers :
            (Running(w) /\ ~Running(w)') => pc'[w] = "done"]_vars
    /\ [](\A w \in Workers :
            /\ pc[w] = "done" =>
                  response[w].kind \in {"Http404", "render", "redirect", "exception"}
            /\ Running(w) => response[w].kind = "none" /\ ENABLED WorkerStep(w)
            /\ pc[w] \in {"increment", "save", "redirect"} =>
                  /\ question[w] \in Question
                  /\ selected_choice[w].pk \in ChoicePks
                  /\ selected_choice[w].question_id = question[w]
                  /\ ChoiceOwner[selected_choice[w].pk] = question_id[w])
    /\ [][\A c \in DOMAIN Choice :
            Choice'[c] # Choice[c] =>
               \E w \in Workers :
                  /\ SaveStep(w)
                  /\ selected_choice[w].pk = c
                  /\ question[w] = Choice[c].question_id]_vars

C17_Witness ==
    /\ pc[1] = "done"
    /\ pc[2] = "done"
    /\ response[1].kind = "redirect"
    /\ response[2].kind = "exception"
    /\ response[2].error = "ValueError"
    /\ submitted = 2

=============================================================================
